---- MODULE Spec2Model ----
(***************************************************************************)
(* Model of the three scripts of ai-stories-generator:                     *)
(*   scripts/make_story.py            wrap_text, fit_cover                 *)
(*   scripts/pick_ai_news.py          the feed picker                      *)
(*   scripts/gen_stories_from_urls.py the orchestrator and the capturer    *)
(* The scripts share no state, so each has its own variables and its own   *)
(* specification (SpecWrap, SpecFit, SpecFeed, SpecOrch); a specification  *)
(* leaves the variables of the other scripts at their idle values.         *)
(***************************************************************************)
EXTENDS Integers, Sequences, FiniteSets

VARIABLES
    \* make_story.wrap_text
    text, font, max_width, lines, wpc,
    \* make_story.fit_cover
    iw, ih, nw, nh, left, top, fpc,
    \* pick_ai_news.main
    hours, limit, feedNo, entNo, entry, kept, cands, output, npc,
    \* gen_stories_from_urls.main / take_screenshot
    itemsFile, items, skip, makeStory, playwright, shots, pc, idx, browser,
    launches, closes, warned, augmented, composer, rc, stories, summary,
    exitCode, exitMsg

wrapVars == <<text, font, max_width, lines, wpc>>
fitVars == <<iw, ih, nw, nh, left, top, fpc>>
feedVars == <<hours, limit, feedNo, entNo, entry, kept, cands, output, npc>>
\* what a run is given and does not change
orchInput == <<itemsFile, items, skip, makeStory, playwright>>
orchVars == <<itemsFile, items, skip, makeStory, playwright, shots, pc, idx,
              browser, launches, closes, warned, augmented, composer, rc,
              stories, summary, exitCode, exitMsg>>
vars == <<wrapVars, fitVars, feedVars, orchVars>>

\* Python's None, where the other values are numbers
None == -1

IdleWrap ==
    /\ text = <<>> /\ font = <<>> /\ max_width = 0 /\ lines = <<>>
    /\ wpc = "idle"

IdleFit ==
    /\ iw = 0 /\ ih = 0 /\ nw = 0 /\ nh = 0 /\ left = 0 /\ top = 0
    /\ fpc = "idle"

IdleFeed ==
    /\ hours = 0 /\ limit = 0 /\ feedNo = 0 /\ entNo = 0 /\ entry = <<>>
    /\ kept = FALSE /\ cands = <<>> /\ output = <<>> /\ npc = "idle"

IdleOrch ==
    /\ itemsFile = FALSE /\ items = <<>> /\ skip = FALSE /\ makeStory = FALSE
    /\ playwright = FALSE
    /\ shots = <<>> /\ pc = "idle" /\ idx = 0 /\ browser = "closed"
    /\ launches = 0 /\ closes = 0 /\ warned = {} /\ augmented = <<>>
    /\ composer = "idle" /\ rc = None /\ stories = {} /\ summary = FALSE
    /\ exitCode = None /\ exitMsg = ""

(***************************************************************************)
(* Strings are sequences of one-character strings.                         *)
(***************************************************************************)
Space == " "

\* str.lstrip / str.rstrip / str.strip on whitespace
RECURSIVE LStrip(_)
LStrip(s) ==
    IF s = <<>> THEN <<>>
    ELSE IF Head(s) = Space THEN LStrip(Tail(s)) ELSE s

RECURSIVE RStrip(_)
RStrip(s) ==
    IF s = <<>> THEN <<>>
    ELSE IF s[Len(s)] = Space THEN RStrip(SubSeq(s, 1, Len(s) - 1)) ELSE s

Strip(s) == RStrip(LStrip(s))

\* str.split(): split on runs of whitespace, no empty words
RECURSIVE SplitAcc(_, _, _)
SplitAcc(s, cur, acc) ==
    IF s = <<>> THEN (IF cur = <<>> THEN acc ELSE Append(acc, cur))
    ELSE IF Head(s) = Space
         THEN SplitAcc(Tail(s), <<>>,
                       IF cur = <<>> THEN acc ELSE Append(acc, cur))
         ELSE SplitAcc(Tail(s), Append(cur, Head(s)), acc)

Split(s) == SplitAcc(s, <<>>, <<>>)

\* ' '.join(seq)
RECURSIVE JoinSp(_)
JoinSp(ws) ==
    IF ws = <<>> THEN <<>>
    ELSE IF Len(ws) = 1 THEN ws[1]
    ELSE ws[1] \o <<Space>> \o JoinSp(Tail(ws))

(***************************************************************************)
(* make_story.wrap_text                                                    *)
(***************************************************************************)
MaxLen == 6
MaxAdvance == 2
MaxWidth == 5

Chars == {"a", "b", Space}
Texts == UNION {[1..n -> Chars] : n \in 0..MaxLen}
\* a font is its table of advance widths
Fonts == [Chars -> 1..MaxAdvance]

\* draw.textlength(s, font=f)
RECURSIVE textlength(_, _)
textlength(s, f) ==
    IF s = <<>> THEN 0 ELSE f[Head(s)] + textlength(Tail(s), f)

FitsLoose(tw, mw) == tw <= mw + 1
\* line 65: tw <= max_width
Fits(tw, mw) == tw <= mw

CloseLineAlways(ls, cur) == Append(ls, cur)
\* lines 68-69 and 71-72: if cur: lines.append(cur)
CloseLine(ls, cur) == IF cur # <<>> THEN Append(ls, cur) ELSE ls

\* lines 62-70, the loop over words
RECURSIVE WrapLoop(_, _, _, _, _)
WrapLoop(words, ls, cur, f, mw) ==
    IF words = <<>> THEN [lines |-> ls, cur |-> cur]
    ELSE LET w == Head(words)
             test == Strip(cur \o <<Space>> \o w)
             tw == textlength(test, f)
         IN  IF Fits(tw, mw)
             THEN WrapLoop(Tail(words), ls, test, f, mw)
             ELSE WrapLoop(Tail(words), CloseLine(ls, cur), w, f, mw)

wrap_text(t, f, mw) ==
    LET r == WrapLoop(Split(t), <<>>, <<>>, f, mw)
    IN  CloseLine(r.lines, r.cur)

InitWrap ==
    /\ text \in Texts
    /\ font \in Fonts
    /\ max_width \in 0..MaxWidth
    /\ lines = <<>>
    /\ wpc = "start"
    /\ IdleFit /\ IdleFeed /\ IdleOrch

WrapText ==
    /\ wpc = "start"
    /\ lines' = wrap_text(text, font, max_width)
    /\ wpc' = "done"
    /\ UNCHANGED <<text, font, max_width, fitVars, feedVars, orchVars>>

NextWrap == WrapText

SpecWrap == InitWrap /\ [][NextWrap]_vars

\* the words of all the lines, in order
RECURSIVE WordsOf(_)
WordsOf(ls) ==
    IF ls = <<>> THEN <<>> ELSE Split(Head(ls)) \o WordsOf(Tail(ls))

\* C1: the lines of wrap_text, joined with single spaces, are exactly the
\* whitespace-split words of the text joined with single spaces (nothing
\* lost, duplicated, split or reordered), and no line is empty.
C1_WrapKeepsWords ==
    wpc = "done" =>
        /\ JoinSp(lines) = JoinSp(Split(text))
        /\ WordsOf(lines) = Split(text)
        /\ \A i \in 1..Len(lines) : lines[i] # <<>>

\* a text wrapped over several lines, one of them holding two words
C1_Witness ==
    /\ wpc = "done"
    /\ Len(lines) >= 2
    /\ \E i \in 1..Len(lines) : Len(Split(lines[i])) >= 2

\* C2: every line fits max_width or is one single word that is itself wider
\* than max_width; a line of two or more words never exceeds max_width.
C2_WrapWidth ==
    wpc = "done" =>
        \A i \in 1..Len(lines) :
            \/ textlength(lines[i], font) <= max_width
            \/ /\ Len(Split(lines[i])) = 1
               /\ lines[i] = Split(lines[i])[1]
               /\ textlength(Split(lines[i])[1], font) > max_width

\* an overflowing single word next to a line of two words that fits
C2_Witness ==
    /\ wpc = "done"
    /\ \E i \in 1..Len(lines) : textlength(lines[i], font) > max_width
    /\ \E i \in 1..Len(lines) :
          /\ Len(Split(lines[i])) >= 2
          /\ textlength(lines[i], font) <= max_width

(***************************************************************************)
(* make_story.fit_cover.  Python's w / iw is a binary64 division and       *)
(* iw * scale a binary64 product, both rounded to nearest, ties to even;   *)
(* int() truncates.  A binary64 is modelled bit for bit: [d, e] is the     *)
(* number whose Precision-bit significand is written d in base 2^DigitBits *)
(* (five digits, least significant first, the last one 1) times 2^e.       *)
(***************************************************************************)
W == 1080
H == 1920
Precision == 53
DigitBits == 13
MaxSrcW == 12
MaxSrcH == 12

Base == 2^DigitBits

\* a / b = (a2 / b2) * 2^E with b2 <= a2 < 2*b2
RECURSIVE Normalize(_, _, _)
Normalize(a, b, E) ==
    IF a < b THEN Normalize(2 * a, b, E - 1)
    ELSE IF a >= 2 * b THEN Normalize(a, 2 * b, E + 1)
    ELSE [a |-> a, b |-> b, E |-> E]

\* d + 1, the carry running up the digits
RECURSIVE Inc(_)
Inc(d) ==
    IF d = <<>> THEN <<>>
    ELSE IF d[1] + 1 < Base THEN <<d[1] + 1>> \o Tail(d)
    ELSE <<0>> \o Inc(Tail(d))

\* round (d + g/2 + a fraction below, non-zero iff st) * 2^e to nearest,
\* ties to even
RoundNearestEven(d, g, st, e) ==
    LET up == g = 1 /\ (st \/ d[1] % 2 = 1)
        k == Inc(d)
    IN  IF ~up THEN [d |-> d, e |-> e]
        ELSE IF k[5] = 2 THEN [d |-> <<0, 0, 0, 0, 1>>, e |-> e + 1]
        ELSE [d |-> k, e |-> e]

\* a / b for positive integers (line 36: w / iw), by long division, one
\* digit at a time
FDiv(a, b) ==
    LET n == Normalize(a, b, 0)
        r0 == n.a - n.b
        q1 == (r0 * Base) \div n.b
        r1 == (r0 * Base) % n.b
        q2 == (r1 * Base) \div n.b
        r2 == (r1 * Base) % n.b
        q3 == (r2 * Base) \div n.b
        r3 == (r2 * Base) % n.b
        q4 == (r3 * Base) \div n.b
        r4 == (r3 * Base) % n.b
        g == IF 2 * r4 >= n.b THEN 1 ELSE 0
    IN  RoundNearestEven(<<q4, q3, q2, q1, 1>>, g, 2 * r4 - g * n.b # 0,
                         n.E - (Precision - 1))

\* d shifted right by s bits: the digits, the last bit shifted out (g) and
\* whether any bit below it was set (st)
RECURSIVE ShiftRight(_, _)
ShiftRight(d, s) ==
    IF s = 0 THEN [d |-> d, g |-> 0, st |-> FALSE]
    ELSE IF s > DigitBits
    THEN LET r == ShiftRight(Append(Tail(d), 0), s - DigitBits)
         IN  [d |-> r.d, g |-> r.g, st |-> r.st \/ d[1] # 0]
    ELSE LET low == d[1] % 2^s
             n == Len(d)
         IN  [d |-> [i \in 1..n |->
                        (d[i] \div 2^s)
                        + (IF i < n THEN (d[i + 1] % 2^s) * 2^(DigitBits - s)
                           ELSE 0)],
              g |-> low \div 2^(s - 1),
              st |-> low % 2^(s - 1) # 0]

RECURSIVE BitLen(_)
BitLen(x) == IF x = 0 THEN 0 ELSE 1 + BitLen(x \div 2)

\* the number of significant bits of the digits d (not all zero)
DigitsBitLen(d) ==
    LET t == CHOOSE i \in 1..Len(d) :
                 d[i] # 0 /\ \A j \in (i + 1)..Len(d) : d[j] = 0
    IN  DigitBits * (t - 1) + BitLen(d[t])

\* d * n + c
RECURSIVE MulDigits(_, _, _)
MulDigits(d, n, c) ==
    IF d = <<>> THEN <<c % Base, c \div Base>>
    ELSE LET t == d[1] * n + c
         IN  <<t % Base>> \o MulDigits(Tail(d), n, t \div Base)

\* n * x for a positive integer n (line 37: iw * scale)
FMulInt(x, n) ==
    LET p == MulDigits(x.d, n, 0)
        s == DigitsBitLen(p) - Precision
        r == ShiftRight(p, s)
    IN  RoundNearestEven(SubSeq(r.d, 1, 5), r.g, r.st, x.e + s)

RECURSIVE DigitsToInt(_)
DigitsToInt(d) ==
    IF d = <<>> THEN 0 ELSE d[1] + Base * DigitsToInt(Tail(d))

\* int(x) for a positive x (line 37)
FInt(x) ==
    IF x.e >= 0 THEN DigitsToInt(x.d) * 2^(x.e)
    ELSE DigitsToInt(ShiftRight(x.d, 0 - x.e).d)

\* a > b for digit sequences of the same length
RECURSIVE DigitsGreater(_, _)
DigitsGreater(a, b) ==
    IF a = <<>> THEN FALSE
    ELSE IF a[Len(a)] # b[Len(b)] THEN a[Len(a)] > b[Len(b)]
    ELSE DigitsGreater(SubSeq(a, 1, Len(a) - 1), SubSeq(b, 1, Len(b) - 1))

FGreater(x, y) == x.e > y.e \/ (x.e = y.e /\ DigitsGreater(x.d, y.d))

\* max(x, y): the first argument unless the second is greater
FMax(x, y) == IF FGreater(y, x) THEN y ELSE x

\* lines 36-40; the crop of line 41 is the box (left, top, left+w, top+h)
fit_cover(siw, sih, w, h) ==
    LET scale == FMax(FDiv(w, siw), FDiv(h, sih))
        snw == FInt(FMulInt(scale, siw))
        snh == FInt(FMulInt(scale, sih))
    IN  [nw |-> snw, nh |-> snh,
         left |-> (snw - w) \div 2, top |-> (snh - h) \div 2]

InitFit ==
    /\ iw \in 1..MaxSrcW
    /\ ih \in 1..MaxSrcH
    /\ nw = 0 /\ nh = 0 /\ left = 0 /\ top = 0
    /\ fpc = "start"
    /\ IdleWrap /\ IdleFeed /\ IdleOrch

FitCover ==
    /\ fpc = "start"
    /\ LET r == fit_cover(iw, ih, W, H)
       IN  /\ nw' = r.nw /\ nh' = r.nh /\ left' = r.left /\ top' = r.top
    /\ fpc' = "done"
    /\ UNCHANGED <<iw, ih, wrapVars, feedVars, orchVars>>

NextFit == FitCover

SpecFit == InitFit /\ [][NextFit]_vars

\* C3: the scaled image covers the target, nw >= w and nh >= h, so the
\* centred crop box has left >= 0, top >= 0 and lies inside the scaled image.
C3_CropInside ==
    fpc = "done" =>
        /\ nw >= W /\ nh >= H
        /\ left >= 0 /\ top >= 0
        /\ left + W <= nw /\ top + H <= nh

(***************************************************************************)
(* pick_ai_news.main.  Time is counted in hours.  An entry is what         *)
(* feedparser hands over: its link, whether KEYWORDS matches its title and *)
(* summary, and its published_parsed and updated_parsed (None when the     *)
(* feed gives none).                                                       *)
(***************************************************************************)
MaxFeeds == 2
\* entries over all the feeds of a run
MaxEntries == 2

\* the hours an entry can be stamped with; now is the latest
Times == {0, 1, 2}
Now == CHOOSE t \in Times : \A u \in Times : u <= t
\* --hours and --limit
HoursArgs == {1, 2}
Limits == {1, 2}
Stamps == {None} \cup Times
Links == {<<>>, <<"u">>, <<"v">>, <<"u", Space>>}
Entries ==
    [link : Links, matches : BOOLEAN, published_parsed : Stamps,
     updated_parsed : Stamps]

\* line 51: cutoff = now - timedelta(hours=args.hours)
Cutoff(h) == Now - h

\* lines 35-40: published_parsed or updated_parsed, None when neither
parse_dt(e) ==
    IF e.published_parsed # None THEN e.published_parsed
    ELSE e.updated_parsed

TooOldInclusive(when, h) == when # None /\ when <= Cutoff(h)
\* line 65: when and when < cutoff
TooOld(when, h) == when # None /\ when < Cutoff(h)

\* lines 58-74: the candidates list after entry e of feed src
Consider(cs, e, src, h) ==
    LET link == Strip(e.link)
        when == parse_dt(e)
    IN  IF ~e.matches THEN cs
        ELSE IF TooOld(when, h) THEN cs
        ELSE IF link = <<>> THEN cs
        ELSE Append(cs, [url |-> link, source |-> src, published |-> when])

\* lines 77-83: keep the first candidate of each url
RECURSIVE Dedupe(_, _)
Dedupe(cs, seen) ==
    IF cs = <<>> THEN <<>>
    ELSE IF cs[1].url \in seen THEN Dedupe(Tail(cs), seen)
    ELSE <<cs[1]>> \o Dedupe(Tail(cs), seen \cup {cs[1].url})

\* line 86: the sort key x['published'] or ''; the ISO text of a time sorts
\* as the time does, and '' sorts before every one of them
PubKey(c) == IF c.published = None THEN -1 ELSE c.published

\* c put after the last element whose key is not smaller
InsertDesc(sorted, c) ==
    LET n == Cardinality({i \in 1..Len(sorted) :
                              PubKey(sorted[i]) >= PubKey(c)})
    IN  SubSeq(sorted, 1, n) \o <<c>> \o SubSeq(sorted, n + 1, Len(sorted))

\* line 86: list.sort(key, reverse=True), a stable sort, largest key first
RECURSIVE SortDesc(_, _)
SortDesc(cs, sorted) ==
    IF cs = <<>> THEN sorted
    ELSE SortDesc(Tail(cs), InsertDesc(sorted, Head(cs)))

\* line 88: deduped[:limit], limit >= 0
Truncate(cs, lim) == SubSeq(cs, 1, IF lim < Len(cs) THEN lim ELSE Len(cs))

SortThenDedupe(cs, lim) == Truncate(Dedupe(SortDesc(cs, <<>>), {}), lim)
\* lines 76-88
Emit(cs, lim) == Truncate(SortDesc(Dedupe(cs, {}), <<>>), lim)

InitFeed ==
    /\ hours \in HoursArgs
    /\ limit \in Limits
    /\ feedNo = 0
    /\ entNo = 0
    /\ entry = <<>>
    /\ kept = FALSE
    /\ cands = <<>>
    /\ output = <<>>
    /\ npc = "feeds"
    /\ IdleWrap /\ IdleFit /\ IdleOrch

\* lines 54-56: the next feed of the feeds file is fetched
NextFeed ==
    /\ npc = "feeds"
    /\ feedNo < MaxFeeds
    /\ feedNo' = feedNo + 1
    /\ npc' = "entries"
    /\ UNCHANGED <<hours, limit, entNo, entry, kept, cands, output>>
    /\ UNCHANGED <<wrapVars, fitVars, orchVars>>

\* lines 57-74: one entry of the current feed
ParseEntry ==
    /\ npc = "entries"
    /\ entNo < MaxEntries
    /\ \E e \in Entries :
          /\ entry' = e
          /\ cands' = Consider(cands, e, feedNo, hours)
          /\ kept' = (cands' # cands)
    /\ entNo' = entNo + 1
    /\ UNCHANGED <<hours, limit, feedNo, output, npc>>
    /\ UNCHANGED <<wrapVars, fitVars, orchVars>>

\* line 57: the entries of the current feed are exhausted
EndEntries ==
    /\ npc = "entries"
    /\ npc' = "feeds"
    /\ UNCHANGED <<hours, limit, feedNo, entNo, entry, kept, cands, output>>
    /\ UNCHANGED <<wrapVars, fitVars, orchVars>>

\* lines 76-88: the feeds are exhausted; dedupe, sort, truncate, print
EndFeeds ==
    /\ npc = "feeds"
    /\ output' = Emit(cands, limit)
    /\ npc' = "done"
    /\ UNCHANGED <<hours, limit, feedNo, entNo, entry, kept, cands>>
    /\ UNCHANGED <<wrapVars, fitVars, orchVars>>

NextFeedPicker == NextFeed \/ ParseEntry \/ EndEntries \/ EndFeeds

SpecFeed == InitFeed /\ [][NextFeedPicker]_vars

Urls(cs) == {cs[i].url : i \in 1..Len(cs)}

\* the first candidate with url u, in the order the entries were met
FirstWith(cs, u) == cs[CHOOSE i \in 1..Len(cs) :
                          cs[i].url = u /\ \A j \in 1..(i - 1) : cs[j].url # u]

C5_RecencyFilter ==
    (entNo > 0 /\ entry.matches /\ Strip(entry.link) # <<>>) =>
        LET t == IF entry.published_parsed # None THEN entry.published_parsed
                 ELSE entry.updated_parsed
        IN  /\ ~kept <=> (t # None /\ t < Now - hours)
            /\ kept => /\ cands[Len(cands)].url = Strip(entry.link)
                       /\ cands[Len(cands)].published = t

\* an entry one hour older than the window was dropped
C5_Witness ==
    /\ entNo > 0 /\ entry.matches /\ Strip(entry.link) # <<>>
    /\ entry.published_parsed = None
    /\ entry.updated_parsed # None
    /\ entry.updated_parsed = Now - hours - 1
    /\ ~kept

(***************************************************************************)
(* gen_stories_from_urls.main and take_screenshot, with the composer       *)
(* (make_story.main) as the subprocess it waits for.  An item is its url;  *)
(* shots[i] is the file shot_{i:02d}.png of the shots directory.           *)
(***************************************************************************)
MaxItems == 2

ItemUrls == {<<>>, <<Space>>, <<"u">>}
ItemLists == UNION {[1..n -> ItemUrls] : n \in 0..MaxItems}

Absent == [kind |-> "absent", url |-> <<>>, loaded |-> FALSE]
\* a file an earlier run left in the shots directory
Stale == [kind |-> "stale", url |-> <<>>, loaded |-> FALSE]
\* the file page.screenshot writes for url in this run
Fresh(url, loaded) == [kind |-> "fresh", url |-> url, loaded |-> loaded]

\* the composer's non-zero return codes: an uncaught exception, a kill
FailCodes == {1, -9}

MsgNotFound == "Arquivo nao encontrado"
MsgEmpty == "items.json esta vazio."
MsgNoPlaywright == "playwright nao encontrado"
MsgNoShot == "Screenshot ausente"
MsgNoComposer == "make_story.py nao encontrado"
MsgComposerFailed == "make_story.py falhou"

\* sys.exit(message): the message goes to stderr, the exit status is 1
SysExitCode == 1

Exit(msg) ==
    /\ pc' = "exit"
    /\ exitCode' = SysExitCode
    /\ exitMsg' = msg

N == Len(items)

\* line 157 and line 167: f"shot_{i:02d}.png", one name per index
ShotPath(i) == i

AlwaysCapture(url) == TRUE
\* lines 153-156: an item without url is skipped with a warning
NeedsCapture(url) == url # <<>>

GotoErrorRaises(ok) == IF ok THEN "screenshot" ELSE "crash"
\* lines 71-75: an exception of goto is caught and printed, and the
\* function goes on to page.screenshot either way
AfterGoto(ok) == "screenshot"

NeverMissing(sh, i) == FALSE
\* line 168: not shot_path.exists()
MissingShot(sh, i) == sh[ShotPath(i)].kind = "absent"

FailedIfPositive(r) == r > 0
\* line 196: result.returncode != 0
ComposerFailed(r) == r # 0

InitOrch ==
    /\ itemsFile \in BOOLEAN
    /\ items \in ItemLists
    /\ ~itemsFile => items = <<>>
    /\ skip \in BOOLEAN
    /\ makeStory \in BOOLEAN
    /\ playwright \in BOOLEAN
    /\ shots \in [1..MaxItems -> {Absent, Stale}]
    /\ pc = "start"
    /\ idx = 0
    /\ browser = "closed"
    /\ launches = 0
    /\ closes = 0
    /\ warned = {}
    /\ augmented = <<>>
    /\ composer = "idle"
    /\ rc = None
    /\ stories = {}
    /\ summary = FALSE
    /\ exitCode = None
    /\ exitMsg = ""
    /\ IdleWrap /\ IdleFit /\ IdleFeed

\* lines 126-151: the items are loaded
LoadItems ==
    /\ pc = "start"
    /\ IF ~itemsFile THEN Exit(MsgNotFound) /\ UNCHANGED idx
       ELSE IF items = <<>> THEN Exit(MsgEmpty) /\ UNCHANGED idx
       ELSE /\ pc' = IF skip THEN "augment" ELSE "capture"
            /\ idx' = 1
            /\ UNCHANGED <<exitCode, exitMsg>>
    /\ UNCHANGED <<orchInput, shots, browser,
                   launches, closes, warned, augmented, composer, rc,
                   stories, summary>>
    /\ UNCHANGED <<wrapVars, fitVars, feedVars>>

\* lines 152-158: the next item of the capture loop
CaptureNext ==
    /\ pc = "capture"
    /\ IF idx > N THEN pc' = "augment" /\ idx' = 1
       ELSE IF NeedsCapture(Strip(items[idx]))
            THEN pc' = "launch" /\ UNCHANGED idx
            ELSE pc' = "capture" /\ idx' = idx + 1
    /\ UNCHANGED <<orchInput, shots, browser,
                   launches, closes, warned, augmented, composer, rc,
                   stories, summary, exitCode, exitMsg>>
    /\ UNCHANGED <<wrapVars, fitVars, feedVars>>

\* lines 48-69: take_screenshot imports playwright, or exits when it is
\* not installed; it launches a browser and opens a page
Launch ==
    /\ pc = "launch"
    /\ IF ~playwright
       THEN Exit(MsgNoPlaywright) /\ UNCHANGED <<browser, launches>>
       ELSE /\ browser' = "open"
            /\ launches' = launches + 1
            /\ pc' = "goto"
            /\ UNCHANGED <<exitCode, exitMsg>>
    /\ UNCHANGED <<orchInput, shots,
                   idx, closes, warned, augmented, composer, rc, stories,
                   summary>>
    /\ UNCHANGED <<wrapVars, fitVars, feedVars>>

\* lines 71-75: page.goto loads the page, or fails or times out
Goto ==
    /\ pc = "goto"
    /\ \E ok \in BOOLEAN :
          /\ warned' = IF ok THEN warned ELSE warned \cup {idx}
          /\ pc' = AfterGoto(ok)
    /\ UNCHANGED <<orchInput, shots, idx, browser,
                   launches, closes, augmented, composer, rc, stories,
                   summary, exitCode, exitMsg>>
    /\ UNCHANGED <<wrapVars, fitVars, feedVars>>

\* lines 78-81: page.screenshot writes the file
Screenshot ==
    /\ pc = "screenshot"
    /\ shots' = [shots EXCEPT ![ShotPath(idx)] =
                     Fresh(Strip(items[idx]), idx \notin warned)]
    /\ pc' = "close"
    /\ UNCHANGED <<orchInput, idx, browser,
                   launches, closes, warned, augmented, composer, rc,
                   stories, summary, exitCode, exitMsg>>
    /\ UNCHANGED <<wrapVars, fitVars, feedVars>>

\* line 82 and line 160: the browser is closed, the loop goes on
Close ==
    /\ pc = "close"
    /\ browser' = "closed"
    /\ closes' = closes + 1
    /\ pc' = "capture"
    /\ idx' = idx + 1
    /\ UNCHANGED <<orchInput, shots, launches,
                   warned, augmented, composer, rc, stories, summary,
                   exitCode, exitMsg>>
    /\ UNCHANGED <<wrapVars, fitVars, feedVars>>

\* lines 165-175: the next item gets its screenshot path
Augment ==
    /\ pc = "augment"
    /\ IF idx > N
       THEN /\ pc' = "compose"
            /\ UNCHANGED <<idx, augmented, exitCode, exitMsg>>
       ELSE IF MissingShot(shots, idx)
            THEN Exit(MsgNoShot) /\ UNCHANGED <<idx, augmented>>
            ELSE /\ augmented' = Append(augmented,
                                   [item |-> idx, screenshot |-> ShotPath(idx)])
                 /\ idx' = idx + 1
                 /\ UNCHANGED <<pc, exitCode, exitMsg>>
    /\ UNCHANGED <<orchInput, shots, browser,
                   launches, closes, warned, composer, rc, stories, summary>>
    /\ UNCHANGED <<wrapVars, fitVars, feedVars>>

\* lines 180-192: the composer is started and waited for
CallComposer ==
    /\ pc = "compose"
    /\ IF ~makeStory THEN Exit(MsgNoComposer) /\ UNCHANGED composer
       ELSE /\ composer' = "running"
            /\ pc' = "wait"
            /\ UNCHANGED <<exitCode, exitMsg>>
    /\ UNCHANGED <<orchInput, shots, idx, browser,
                   launches, closes, warned, augmented, rc, stories, summary>>
    /\ UNCHANGED <<wrapVars, fitVars, feedVars>>

\* make_story.py lines 143-146: the composer renders its next story from
\* the screenshot file the item names
ComposerRender ==
    /\ composer = "running"
    /\ Cardinality(stories) < Len(augmented)
    /\ LET k == Cardinality(stories) + 1
       IN  stories' = stories \cup
               {[story |-> k, from |-> shots[augmented[k].screenshot]]}
    /\ UNCHANGED <<orchInput, shots, pc, idx,
                   browser, launches, closes, warned, augmented, composer,
                   rc, summary, exitCode, exitMsg>>
    /\ UNCHANGED <<wrapVars, fitVars, feedVars>>

\* the composer dies (render raises, or the process is killed)
ComposerFail ==
    /\ composer = "running"
    /\ composer' = "exited"
    /\ rc' \in FailCodes
    /\ UNCHANGED <<orchInput, shots, pc, idx,
                   browser, launches, closes, warned, augmented, stories,
                   summary, exitCode, exitMsg>>
    /\ UNCHANGED <<wrapVars, fitVars, feedVars>>

\* make_story.py line 143: the loop is over, the composer exits 0
ComposerDone ==
    /\ composer = "running"
    /\ Cardinality(stories) = Len(augmented)
    /\ composer' = "exited"
    /\ rc' = 0
    /\ UNCHANGED <<orchInput, shots, pc, idx,
                   browser, launches, closes, warned, augmented, stories,
                   summary, exitCode, exitMsg>>
    /\ UNCHANGED <<wrapVars, fitVars, feedVars>>

\* lines 192-197: subprocess.run returns once the composer has exited
AfterRun ==
    /\ pc = "wait"
    /\ composer = "exited"
    /\ IF ComposerFailed(rc) THEN Exit(MsgComposerFailed)
       ELSE pc' = "summary" /\ UNCHANGED <<exitCode, exitMsg>>
    /\ UNCHANGED <<orchInput, shots, idx, browser,
                   launches, closes, warned, augmented, composer, rc,
                   stories, summary>>
    /\ UNCHANGED <<wrapVars, fitVars, feedVars>>

\* lines 202-206: the summary is printed and main returns
Summary ==
    /\ pc = "summary"
    /\ summary' = TRUE
    /\ pc' = "exit"
    /\ exitCode' = 0
    /\ UNCHANGED <<orchInput, shots, idx, browser,
                   launches, closes, warned, augmented, composer, rc,
                   stories, exitMsg>>
    /\ UNCHANGED <<wrapVars, fitVars, feedVars>>

NextOrch ==
    \/ LoadItems \/ CaptureNext \/ Launch \/ Goto \/ Screenshot \/ Close
    \/ Augment \/ CallComposer \/ ComposerRender \/ ComposerFail
    \/ ComposerDone \/ AfterRun \/ Summary

SpecOrch == InitOrch /\ [][NextOrch]_vars

\* the items among the first n that have a url
UrlItems(n) == {j \in 1..n : Strip(items[j]) # <<>>}

\* the capture loop is over
PastCapture ==
    \/ pc \in {"augment", "compose", "wait", "summary"}
    \/ pc = "exit" /\ exitMsg \notin {MsgNotFound, MsgEmpty, MsgNoPlaywright}

IsFreshOf(i) ==
    /\ shots[ShotPath(i)].kind = "fresh"
    /\ shots[ShotPath(i)].url = Strip(items[i])

\* C6: a navigation error or timeout on item i is logged as a warning, the
\* screenshot of item i is still taken and written to shot_i, and the loop
\* goes on: the run is not aborted, and once the loop is over every item
\* with a url, the later ones included, has the screenshot of this run.
C6_NavigationErrorRecovered ==
    /\ \A i \in warned :
          /\ i = idx /\ ~PastCapture => pc \in {"screenshot", "close"}
          /\ (i < idx \/ PastCapture \/ pc = "close") =>
                 IsFreshOf(i) /\ ~shots[ShotPath(i)].loaded
    /\ (warned # {} /\ PastCapture) => \A j \in UrlItems(N) : IsFreshOf(j)
    /\ (warned # {} /\ pc = "exit") =>
          exitMsg \in {"", MsgNoShot, MsgNoComposer, MsgComposerFailed}

\* the first item failed to load, the second was captured after it, and the
\* run came to its summary
C6_Witness ==
    /\ pc = "exit" /\ summary
    /\ 1 \in warned /\ 2 \notin warned
    /\ IsFreshOf(1) /\ IsFreshOf(2) /\ shots[ShotPath(2)].loaded

C8_SingleBrowser == launches <= 1

\* C8, amended: take_screenshot launches a browser of its own for every
\* item that has a url and closes it when that item's screenshot is written;
\* at most one is open at a time, and a run that captures launches and
\* closes as many browsers as it has items with a url.
C8_BrowserPerItem ==
    /\ pc \in {"goto", "screenshot", "close"} =>
          /\ browser = "open"
          /\ launches = Cardinality(UrlItems(idx))
          /\ closes = launches - 1
    /\ pc \notin {"goto", "screenshot", "close"} =>
          /\ browser = "closed"
          /\ closes = launches
    /\ pc \in {"capture", "launch"} =>
          launches = Cardinality(UrlItems(idx - 1))
    /\ PastCapture =>
          launches = IF skip THEN 0 ELSE Cardinality(UrlItems(N))

\* two items with a url were captured: two launches, two closes
C8_Witness ==
    /\ PastCapture /\ ~skip
    /\ Cardinality(UrlItems(N)) = 2
    /\ launches = 2 /\ closes = 2

\* a configuration error: no items file, no item, or a missing screenshot
\* when the paths are put together
ConfigError ==
    \/ ~itemsFile
    \/ items = <<>>
    \/ PastCapture /\ \E i \in 1..N : shots[ShotPath(i)].kind = "absent"

\* C9: a configuration error ends the run with a non-zero status and a
\* message, without the composer ever being started or a story written; the
\* composer is started only with a screenshot file for every item, item i
\* paired with shot_i.
C9_ConfigErrorsFatal ==
    /\ ConfigError => composer = "idle" /\ stories = {} /\ ~summary
    /\ (ConfigError /\ pc = "exit") => exitCode = 1 /\ exitMsg # ""
    /\ pc \in {"compose", "wait", "summary"} => ~ConfigError
    /\ composer # "idle" =>
          /\ itemsFile /\ N > 0
          /\ Len(augmented) = N
          /\ \A i \in 1..N :
                /\ shots[ShotPath(i)].kind # "absent"
                /\ augmented[i] = [item |-> i, screenshot |-> ShotPath(i)]

\* capture ran, the first item's screenshot was taken, the second item has
\* no url and no file, and the run ended on the missing screenshot
C9_Witness ==
    /\ pc = "exit" /\ ~skip /\ exitMsg = MsgNoShot
    /\ N = 2 /\ IsFreshOf(1) /\ shots[ShotPath(2)].kind = "absent"
    /\ composer = "idle" /\ stories = {}

\* C10: without --skip-screenshots, every screenshot handed to the composer
\* for item i was captured from item i's url in this run
C10_OnlyFreshShots ==
    (~skip /\ composer # "idle") =>
        \A k \in 1..Len(augmented) :
            /\ shots[augmented[k].screenshot].kind = "fresh"
            /\ shots[augmented[k].screenshot].url =
                   Strip(items[augmented[k].item])

====
